---- MODULE Spec2Model ----
(***************************************************************************)
(* warehouse-to-go: the extraction plan built from a dbt manifest          *)
(* (manifest_parser.py, cli.py) and the table loader                       *)
(* (SnowflakeExtractor.extract_tables in snowflake_extractor.py).          *)
(***************************************************************************)
EXTENDS Integers, Sequences, FiniteSets, TLC

VARIABLES
    \* ---- plan building (cli.extract, ManifestParser)
    manifest,       \* the nodes of manifest['sources'], in document order
    sources,        \* parse_manifest's result, in insertion order
    plan,           \* cli.extract's plan, in insertion order
    ppc,            \* "manifest" -> "parsed" -> "planned"
    \* ---- the environment of a run of the extract command
    row_limit,      \* config.extract.row_limit
    remote,         \* remote table -> its row count, or Missing (its query raises)
    scanRel,        \* the relation the local engine resolves `table_name` to
    connectEnv,     \* which of the two connections, if any, cannot be opened
    fallbackEnv,    \* table -> how the file-based write of its batch ends
    local,          \* local table -> its rows, or Absent
    tempFiles,      \* the temporary parquet files that exist on disk
    \* ---- SnowflakeExtractor.extract_tables and its caller
    pc,             \* position in cli.extract / extract_tables
    gi,             \* index of the group in plan.items()
    ti,             \* index i of the table in the group (enumerate(tables, 1))
    conn,           \* self.conn, the remote connection
    duckdb_conn,    \* the local database connection
    openCursors,    \* remote cursors opened and not closed
    cursor_result,  \* rows of the executed query not fetched yet
    df,             \* the batch in memory
    tmp,            \* the contents of the temporary file of the table in hand
    schema_stats,   \* group key -> [tables, rows], set once the group has started
    console,        \* the per-table status lines printed by this run
    outcome,        \* table -> how its step ended in this run (history)
    exit_status,    \* None while running, "0" on return, "1" after typer.Exit(1)
    run,            \* the number of the run
    firstRun,       \* what the first run left behind (history)
    query,          \* the query of the table in hand, as sent to the remote
    opens,          \* connections opened by this run, per kind (history)
    fetches,        \* table -> calls of fetch_pandas_all in this run (history)
    writes          \* table -> changes of its local table in this run (history)

planVars == <<manifest, sources, plan, ppc>>

envVars == <<row_limit, remote, scanRel, connectEnv>>

runVars == <<row_limit, remote, scanRel, connectEnv, fallbackEnv, local, tempFiles, pc, gi, ti,
             conn, duckdb_conn, openCursors, cursor_result, df, tmp, schema_stats,
             console, outcome, exit_status, run, firstRun, query, opens, fetches,
             writes>>

vars == <<planVars, runVars>>

(***************************************************************************)
(* Bounds of the manifests that are enumerated.                            *)
(***************************************************************************)
MaxNodes == 2

(***************************************************************************)
(* Python values.  A dict with string keys is a function on a finite set   *)
(* of strings; None is the string "None"; a missing or empty string is "". *)
(* A value that may be None or a collection carries a flag beside it.      *)
(***************************************************************************)
None == "None"

EmptyMeta == [k \in {} |-> ""]

\* {**a, **b}: the keys of both, b's value where b has the key.
Overlay(a, b) ==
    [k \in (DOMAIN a) \cup (DOMAIN b) |-> IF k \in DOMAIN b THEN b[k] ELSE a[k]]

\* The metas a manifest entry may carry.
Metas ==
    { EmptyMeta,
      [k \in {"pii"} |-> "true"],
      [k \in {"pii", "team"} |-> IF k = "pii" THEN "false" ELSE "ops"] }

SourceNames == {"", "raw_crm", "raw_erp"}
TableNames == {"", "customers", "orders"}
Databases == {"analytics"}
Schemas == {"crm", "erp"}

\* A dbt manifest gives every entry of a source the source's own meta as
\* source_meta and the table's declared columns as columns.
SourceMetaOf(source_name) ==
    IF source_name = "raw_crm" THEN [k \in {"team"} |-> "sales"] ELSE EmptyMeta

NoColumns == [given |-> FALSE, names |-> <<>>]

ColumnsOf(name) ==
    IF name = "customers" THEN [given |-> TRUE, names |-> <<"id", "email">>]
    ELSE NoColumns

Node(s, d, sc, n, m) ==
    [source_name |-> s, database |-> d, schema |-> sc, name |-> n, meta |-> m,
     source_meta |-> SourceMetaOf(s), columns |-> ColumnsOf(n)]

ManifestNodes ==
    { Node(s, d, sc, n, m) :
        s \in SourceNames, d \in Databases, sc \in Schemas,
        n \in TableNames, m \in Metas }

Manifests == UNION { [1..n -> ManifestNodes] : n \in 0..MaxNodes }

(***************************************************************************)
(* ManifestParser.parse_manifest                                           *)
(***************************************************************************)
\* The entries modelled carry no identifier: it defaults to the name.
TableConfig(node) ==
    [name |-> node.name, identifier |-> node.name,
     columns |-> node.columns, meta |-> node.meta]

SourceConfig(node) ==
    [name |-> node.source_name, database |-> node.database,
     schema |-> node.schema, meta |-> node.meta, tables |-> <<>>]

HasSource(srcs, source_name) == \E i \in 1..Len(srcs) : srcs[i].name = source_name

\* One iteration of the loop over manifest['sources'].
ParseNode(srcs, node) ==
    IF node.source_name = ""
    THEN srcs
    ELSE LET s1 == IF HasSource(srcs, node.source_name)
                   THEN srcs
                   ELSE Append(srcs, SourceConfig(node))
         IN  IF node.name # ""
             THEN [i \in 1..Len(s1) |->
                      IF s1[i].name = node.source_name
                      THEN [s1[i] EXCEPT !.tables = Append(@, TableConfig(node))]
                      ELSE s1[i]]
             ELSE s1

RECURSIVE ParseFrom(_, _)
ParseFrom(nodes, srcs) ==
    IF nodes = <<>> THEN srcs
    ELSE ParseFrom(Tail(nodes), ParseNode(srcs, Head(nodes)))

ParseManifest(nodes) == ParseFrom(nodes, <<>>)

(***************************************************************************)
(* The plan of cli.extract (the same loop as get_extraction_plan).         *)
(***************************************************************************)
\* f"{database}.{schema}": the two names, in order, joined by a dot.  Names
\* are dot-free identifiers, so the key is the sequence of its two parts.
Key(database, schema) == <<database>> \o <<schema>>

\* MergeMeta with the overlay the other way round: the source's value wins.
MergeMeta_SourceWins(source_meta, table_meta) ==
    IF table_meta # EmptyMeta THEN Overlay(table_meta, source_meta) ELSE source_meta

MergeMeta(source_meta, table_meta) ==
    IF table_meta # EmptyMeta THEN Overlay(source_meta, table_meta) ELSE source_meta

PlanUnit(source_config, table) ==
    [source_name |-> source_config.name,
     table_name |-> table.name,
     identifier |-> table.identifier,
     columns |-> table.columns,
     meta |-> MergeMeta(source_config.meta, table.meta)]

HasKey(p, key) == \E i \in 1..Len(p) : p[i].key = key

RECURSIVE UnitsOf(_, _)
UnitsOf(source_config, tables) ==
    IF tables = <<>> THEN <<>>
    ELSE <<PlanUnit(source_config, Head(tables))>> \o UnitsOf(source_config, Tail(tables))

\* One iteration of the loop over sources.items().
PlanSource(p, source_config) ==
    LET key == Key(source_config.database, source_config.schema)
        p1 == IF HasKey(p, key) THEN p ELSE Append(p, [key |-> key, units |-> <<>>])
    IN  [i \in 1..Len(p1) |->
            IF p1[i].key = key
            THEN [p1[i] EXCEPT !.units = @ \o UnitsOf(source_config, source_config.tables)]
            ELSE p1[i]]

RECURSIVE PlanFrom(_, _)
PlanFrom(srcs, p) ==
    IF srcs = <<>> THEN p
    ELSE PlanFrom(Tail(srcs), PlanSource(p, Head(srcs)))

BuildPlan(srcs) == PlanFrom(srcs, <<>>)

(***************************************************************************)
(* The run that is modelled: the plan of this manifest, two tables in one  *)
(* group and a third in another.                                           *)
(***************************************************************************)
RunManifest ==
    << Node("raw_crm", "analytics", "crm", "customers", [k \in {"pii"} |-> "true"]),
       Node("raw_crm", "analytics", "crm", "orders", EmptyMeta),
       Node("raw_erp", "analytics", "erp", "orders", EmptyMeta) >>

RunPlan == BuildPlan(ParseManifest(RunManifest))

\* f"{database}.{schema}.{table_name}"
FullName(key, table_name) == key \o <<table_name>>

Tables ==
    UNION { { FullName(RunPlan[g].key, RunPlan[g].units[i].table_name) :
                i \in 1..Len(RunPlan[g].units) } : g \in 1..Len(RunPlan) }

Keys == { RunPlan[g].key : g \in 1..Len(RunPlan) }

(***************************************************************************)
(* Bounds of the runs that are enumerated.                                 *)
(***************************************************************************)
MaxRemoteRows == 2
MaxRowLimit == 2
MaxScanRows == 2
MaxRuns == 2

\* A remote table the query of which raises (not found, not permitted).
Missing == [ok |-> FALSE, n |-> 0]
RemoteTable(n) == [ok |-> TRUE, n |-> n]

\* A relation of the local database: its rows, or none of that name.
Absent == [exists |-> FALSE, rows |-> <<>>]
Relation(rows) == [exists |-> TRUE, rows |-> rows]
NoRel == Absent

NoStats == [set |-> FALSE, tables |-> 0, rows |-> 0]

Min(a, b) == IF a <= b THEN a ELSE b

\* The rows of a remote table: the first one holds a NaN.
RemoteRows(t) ==
    [i \in 1..remote[t].n |-> [src |-> t, id |-> i, val |-> IF i = 1 THEN "NaN" ELSE "v"]]

\* Rows a table of the local database held before the first run.
StaleRows == << [src |-> <<"stale">>, id |-> 0, val |-> "v"] >>

\* Rows of a relation named table_name in the local database.
ForeignRows(n) == [i \in 1..n |-> [src |-> <<"table_name">>, id |-> i, val |-> "v"]]

\* The row count of a local table; -1 when there is no such table.
RowCount(rel) == IF rel.exists THEN Len(rel.rows) ELSE 0 - 1

FallbackOutcomes == {"ok", "serialize", "drop", "create"}

(***************************************************************************)
(* The remote source.                                                      *)
(***************************************************************************)
\* SELECT ... LIMIT n
Limit(rows, n) == SubSeq(rows, 1, Min(Len(rows), n))

\* The query text of a table.
BuildQuery(full_table_name, unit) ==
    [select |-> <<"*">>, from |-> full_table_name, limit |-> row_limit]

\* cursor.execute(query): the rows of the result; not ok when it raises.
RemoteExecute(q) ==
    IF ~remote[q.from].ok THEN [ok |-> FALSE, rows |-> <<>>]
    ELSE [ok |-> TRUE, rows |-> Limit(RemoteRows(q.from), q.limit)]

(***************************************************************************)
(* SnowflakeExtractor._convert_df_for_duckdb: NaN becomes None; widening   *)
(* integers and floats changes no value.                                   *)
(***************************************************************************)
ConvertDf(d) ==
    [i \in 1..Len(d) |-> [d[i] EXCEPT !.val = IF @ = "NaN" THEN None ELSE @]]

(***************************************************************************)
(* SnowflakeExtractor.extract_tables, called by cli.extract.               *)
(***************************************************************************)
CurKey == plan[gi].key
CurUnit == plan[gi].units[ti]
CurTable == FullName(CurKey, CurUnit.table_name)
TmpName == <<run, CurTable>>

FreshStats == [k \in Keys |-> NoStats]
FreshOutcome == [t \in Tables |-> "pending"]
NoQuery == [select |-> <<>>, from |-> <<>>, limit |-> 0]
NoOpens == [remote |-> 0, local |-> 0]
NoCalls == [t \in Tables |-> 0]
ConnectOutcomes == {"ok", "remote", "local"}

RunInit ==
    /\ row_limit \in 0..MaxRowLimit
    /\ remote \in [Tables -> {Missing} \cup {RemoteTable(n) : n \in 0..MaxRemoteRows}]
    /\ scanRel \in {NoRel, Relation(ForeignRows(MaxScanRows))}
    /\ connectEnv \in ConnectOutcomes
    /\ fallbackEnv = [t \in Tables |-> "unknown"]
    /\ local \in [Tables -> {Absent, Relation(StaleRows)}]
    /\ tempFiles = {}
    /\ pc = "start"
    /\ gi = 0
    /\ ti = 0
    /\ conn = None
    /\ duckdb_conn = None
    /\ openCursors = {}
    /\ cursor_result = <<>>
    /\ df = <<>>
    /\ tmp = <<>>
    /\ schema_stats = FreshStats
    /\ console = <<>>
    /\ outcome = FreshOutcome
    /\ exit_status = None
    /\ run = 1
    /\ firstRun = <<>>
    /\ query = NoQuery
    /\ opens = NoOpens
    /\ fetches = NoCalls
    /\ writes = NoCalls

\* The loop moves on from the table in hand: the next table of the group, or
\* the next group.
Advance ==
    IF ti < Len(plan[gi].units)
    THEN /\ pc' = "execute"
         /\ ti' = ti + 1
         /\ gi' = gi
    ELSE /\ pc' = "group"
         /\ ti' = 0
         /\ gi' = gi + 1

\* conn = self._get_connection(), which connects when self.conn is not set;
\* duckdb_conn = duckdb.connect(...).  Either may raise, before the try.
Begin ==
    /\ pc = "start"
    /\ IF connectEnv = "remote"
       THEN /\ pc' = "raised"
            /\ UNCHANGED <<conn, duckdb_conn, opens, gi>>
       ELSE /\ conn' = "open"
            /\ IF connectEnv = "local"
               THEN /\ opens' = [opens EXCEPT !.remote = IF conn = None THEN @ + 1 ELSE @]
                    /\ pc' = "raised"
                    /\ UNCHANGED <<duckdb_conn, gi>>
               ELSE /\ opens' = [opens EXCEPT !.remote = IF conn = None THEN @ + 1 ELSE @,
                                              !.local = @ + 1]
                    /\ duckdb_conn' = "open"
                    /\ pc' = "group"
                    /\ gi' = 1
    /\ UNCHANGED <<envVars, fallbackEnv, local, tempFiles, ti, openCursors,
                   cursor_result, df, tmp, schema_stats, console, outcome,
                   exit_status, run, firstRun>>
    /\ UNCHANGED planVars
    /\ UNCHANGED <<query, fetches, writes>>

\* for db_schema, tables in plan.items(): the group's counters, ATTACH and
\* CREATE SCHEMA; after the last group the loop ends.
EnterGroup ==
    /\ pc = "group"
    /\ IF gi > Len(plan)
       THEN /\ pc' = "return"
            /\ UNCHANGED <<gi, ti, schema_stats>>
       ELSE /\ schema_stats' = [schema_stats EXCEPT ![CurKey] =
                                   [set |-> TRUE, tables |-> 0, rows |-> 0]]
            /\ IF Len(plan[gi].units) = 0
               THEN /\ gi' = gi + 1
                    /\ UNCHANGED <<pc, ti>>
               ELSE /\ ti' = 1
                    /\ pc' = "execute"
                    /\ UNCHANGED gi
    /\ UNCHANGED <<envVars, fallbackEnv, local, tempFiles, conn, duckdb_conn,
                   openCursors, cursor_result, df, tmp, console, outcome,
                   exit_status, run, firstRun>>
    /\ UNCHANGED planVars
    /\ UNCHANGED <<query, opens, fetches, writes>>

\* ExecuteQuery without the except branch's continue: a failed query leaves
\* extract_tables by the exception.
ExecuteQuery_Aborts ==
    /\ pc = "execute"
    /\ openCursors' = openCursors \cup {CurTable}
    /\ query' = BuildQuery(CurTable, CurUnit)
    /\ LET res == RemoteExecute(BuildQuery(CurTable, CurUnit))
       IN  IF ~res.ok
           THEN /\ console' = Append(console, <<"failed", CurTable>>)
                /\ outcome' = [outcome EXCEPT ![CurTable] = "query_failed"]
                /\ pc' = "raised"
                /\ UNCHANGED <<gi, ti, cursor_result>>
           ELSE /\ cursor_result' = res.rows
                /\ pc' = "fetch"
                /\ UNCHANGED <<gi, ti, console, outcome>>
    /\ UNCHANGED <<envVars, fallbackEnv, local, tempFiles, conn, duckdb_conn,
                   df, tmp, schema_stats, exit_status, run, firstRun>>
    /\ UNCHANGED planVars
    /\ UNCHANGED <<opens, fetches, writes>>

\* cursor = conn.cursor(); cursor.execute(query); a failure prints the
\* table's failure line and continues with the next table.
ExecuteQuery ==
    /\ pc = "execute"
    /\ openCursors' = openCursors \cup {CurTable}
    /\ query' = BuildQuery(CurTable, CurUnit)
    /\ LET res == RemoteExecute(BuildQuery(CurTable, CurUnit))
       IN  IF ~res.ok
           THEN /\ console' = Append(console, <<"failed", CurTable>>)
                /\ outcome' = [outcome EXCEPT ![CurTable] = "query_failed"]
                /\ Advance
                /\ UNCHANGED cursor_result
           ELSE /\ cursor_result' = res.rows
                /\ pc' = "fetch"
                /\ UNCHANGED <<gi, ti, console, outcome>>
    /\ UNCHANGED <<envVars, fallbackEnv, local, tempFiles, conn, duckdb_conn,
                   df, tmp, schema_stats, exit_status, run, firstRun>>
    /\ UNCHANGED planVars
    /\ UNCHANGED <<opens, fetches, writes>>

\* df = cursor.fetch_pandas_all(); an empty batch ends the loop and closes
\* the cursor; otherwise the batch is converted.
Fetch ==
    /\ pc = "fetch"
    /\ cursor_result' = <<>>
    /\ fetches' = [fetches EXCEPT ![CurTable] = @ + 1]
    /\ IF Len(cursor_result) = 0
       THEN /\ df' = cursor_result
            /\ openCursors' = openCursors \ {CurTable}
            /\ outcome' = [outcome EXCEPT ![CurTable] =
                              IF @ = "pending" THEN "empty" ELSE @]
            /\ Advance
       ELSE /\ df' = ConvertDf(cursor_result)
            /\ pc' = "direct"
            /\ UNCHANGED <<gi, ti, openCursors, outcome>>
    /\ UNCHANGED <<envVars, fallbackEnv, local, tempFiles, conn, duckdb_conn,
                   tmp, schema_stats, console, exit_status, run, firstRun>>
    /\ UNCHANGED planVars
    /\ UNCHANGED <<query, opens, writes>>

\* DirectWrite with CREATE TABLE in place of CREATE OR REPLACE TABLE: the
\* statement also raises when the table exists.
DirectWrite_NoReplace ==
    /\ pc = "direct"
    /\ IF ~scanRel.exists \/ local[CurTable].exists
       THEN /\ pc' = "serialize"
            /\ UNCHANGED <<local, console, outcome, writes>>
       ELSE /\ local' = [local EXCEPT ![CurTable] = scanRel]
            /\ writes' = [writes EXCEPT ![CurTable] = @ + 1]
            /\ console' = Append(console, <<"ok", CurTable, Len(df)>>)
            /\ outcome' = [outcome EXCEPT ![CurTable] = "direct"]
            /\ pc' = "stats"
    /\ UNCHANGED <<envVars, fallbackEnv, tempFiles, gi, ti, conn, duckdb_conn,
                   openCursors, cursor_result, df, tmp, schema_stats,
                   exit_status, run, firstRun>>
    /\ UNCHANGED planVars
    /\ UNCHANGED <<query, opens, fetches>>

\* CREATE OR REPLACE TABLE {full_table_name} AS SELECT * FROM table_name.
\* The statement names table_name, which in the caller's scope is a str and
\* no relation, so the local engine resolves it in its own catalog: with no
\* such relation the statement raises and the except branch is taken.
DirectWrite ==
    /\ pc = "direct"
    /\ IF ~scanRel.exists
       THEN /\ pc' = "serialize"
            /\ UNCHANGED <<local, console, outcome, writes>>
       ELSE /\ local' = [local EXCEPT ![CurTable] = scanRel]
            /\ writes' = [writes EXCEPT ![CurTable] = @ + 1]
            /\ console' = Append(console, <<"ok", CurTable, Len(df)>>)
            /\ outcome' = [outcome EXCEPT ![CurTable] = "direct"]
            /\ pc' = "stats"
    /\ UNCHANGED <<envVars, fallbackEnv, tempFiles, gi, ti, conn, duckdb_conn,
                   openCursors, cursor_result, df, tmp, schema_stats,
                   exit_status, run, firstRun>>
    /\ UNCHANGED planVars
    /\ UNCHANGED <<query, opens, fetches>>

\* with tempfile.NamedTemporaryFile(suffix='.parquet', delete=False) as tmp:
\*     df.to_parquet(tmp.name)
\* A failure of to_parquet leaves the with block by the exception.  How the
\* file-based write of a table's batch ends is a property of the batch and
\* the local engine: it is chosen when first met and is the same in a rerun.
Serialize ==
    /\ pc = "serialize"
    /\ tempFiles' = tempFiles \cup {TmpName}
    /\ \E o \in FallbackOutcomes :
        /\ fallbackEnv[CurTable] \in {"unknown", o}
        /\ fallbackEnv' = [fallbackEnv EXCEPT ![CurTable] = o]
        /\ IF o = "serialize"
           THEN /\ pc' = "raised"
                /\ outcome' = [outcome EXCEPT ![CurTable] = "write_failed"]
                /\ UNCHANGED tmp
           ELSE /\ tmp' = df
                /\ pc' = "load"
                /\ UNCHANGED outcome
    /\ UNCHANGED <<envVars, local, gi, ti, conn, duckdb_conn, openCursors,
                   cursor_result, df, schema_stats, console, exit_status, run,
                   firstRun>>
    /\ UNCHANGED planVars
    /\ UNCHANGED <<query, opens, fetches, writes>>

\* Load without the DROP, inserting into the table that exists: the rows of
\* the file are added to the rows the table held.
Load_Appends ==
    /\ pc = "load"
    /\ tempFiles' = tempFiles \ {TmpName}
    /\ tmp' = <<>>
    /\ IF fallbackEnv[CurTable] \in {"drop", "create"}
       THEN /\ pc' = "raised"
            /\ outcome' = [outcome EXCEPT ![CurTable] = "write_failed"]
            /\ UNCHANGED <<local, console, writes>>
       ELSE /\ local' = [local EXCEPT ![CurTable] = Relation(@.rows \o tmp)]
            /\ writes' = [writes EXCEPT ![CurTable] = @ + 1]
            /\ console' = Append(console, <<"ok", CurTable, Len(df)>>)
            /\ outcome' = [outcome EXCEPT ![CurTable] = "fallback"]
            /\ pc' = "stats"
    /\ UNCHANGED <<envVars, fallbackEnv, gi, ti, conn, duckdb_conn, openCursors,
                   cursor_result, df, schema_stats, exit_status, run, firstRun>>
    /\ UNCHANGED planVars
    /\ UNCHANGED <<query, opens, fetches>>

\* try: DROP TABLE IF EXISTS; CREATE TABLE ... AS SELECT * FROM
\* parquet_scan(tmp.name); print  finally: os.unlink(tmp.name)
Load ==
    /\ pc = "load"
    /\ tempFiles' = tempFiles \ {TmpName}
    /\ tmp' = <<>>
    /\ IF fallbackEnv[CurTable] = "drop"
       THEN /\ pc' = "raised"
            /\ outcome' = [outcome EXCEPT ![CurTable] = "write_failed"]
            /\ UNCHANGED <<local, console, writes>>
       ELSE IF fallbackEnv[CurTable] = "create"
       THEN /\ local' = [local EXCEPT ![CurTable] = Absent]
            /\ writes' = [writes EXCEPT ![CurTable] = @ + 1]
            /\ pc' = "raised"
            /\ outcome' = [outcome EXCEPT ![CurTable] = "write_failed"]
            /\ UNCHANGED console
       ELSE /\ local' = [local EXCEPT ![CurTable] = Relation(tmp)]
            /\ writes' = [writes EXCEPT ![CurTable] = @ + 1]
            /\ console' = Append(console, <<"ok", CurTable, Len(df)>>)
            /\ outcome' = [outcome EXCEPT ![CurTable] = "fallback"]
            /\ pc' = "stats"
    /\ UNCHANGED <<envVars, fallbackEnv, gi, ti, conn, duckdb_conn, openCursors,
                   cursor_result, df, schema_stats, exit_status, run, firstRun>>
    /\ UNCHANGED planVars
    /\ UNCHANGED <<query, opens, fetches>>

\* UpdateStats without the break on row_limit: the while loop goes round.
UpdateStats_NoBreak ==
    /\ pc = "stats"
    /\ schema_stats' = [schema_stats EXCEPT ![CurKey] =
                           [@ EXCEPT !.tables = @ + 1, !.rows = @ + Len(df)]]
    /\ pc' = "fetch"
    /\ UNCHANGED <<gi, ti, openCursors>>
    /\ UNCHANGED <<envVars, fallbackEnv, local, tempFiles, conn, duckdb_conn,
                   cursor_result, df, tmp, console, outcome, exit_status, run,
                   firstRun>>
    /\ UNCHANGED planVars
    /\ UNCHANGED <<query, opens, fetches, writes>>

\* schema_stats[schema_key]['tables'] += 1; ['rows'] += len(df); with a
\* row_limit the loop ends after this batch and the cursor is closed.
UpdateStats ==
    /\ pc = "stats"
    /\ schema_stats' = [schema_stats EXCEPT ![CurKey] =
                           [@ EXCEPT !.tables = @ + 1, !.rows = @ + Len(df)]]
    /\ IF row_limit # 0
       THEN /\ openCursors' = openCursors \ {CurTable}
            /\ Advance
       ELSE /\ pc' = "fetch"
            /\ UNCHANGED <<gi, ti, openCursors>>
    /\ UNCHANGED <<envVars, fallbackEnv, local, tempFiles, conn, duckdb_conn,
                   cursor_result, df, tmp, console, outcome, exit_status, run,
                   firstRun>>
    /\ UNCHANGED planVars
    /\ UNCHANGED <<query, opens, fetches, writes>>

\* What a run leaves behind: the row count of every local table and the
\* counters of every group.
Snapshot == [rows |-> [t \in Tables |-> RowCount(local[t])], stats |-> schema_stats]

\* The loop is over: finally duckdb_conn.close(), the summary, return;
\* SnowflakeExtractor.__exit__ closes the remote connection.
Return ==
    /\ pc = "return"
    /\ duckdb_conn' = "closed"
    /\ conn' = IF conn = "open" THEN "closed" ELSE conn
    /\ exit_status' = "0"
    /\ pc' = "done"
    /\ firstRun' = IF run = 1 THEN <<Snapshot>> ELSE firstRun
    /\ UNCHANGED <<envVars, fallbackEnv, local, tempFiles, gi, ti, openCursors,
                   cursor_result, df, tmp, schema_stats, console, outcome, run>>
    /\ UNCHANGED planVars
    /\ UNCHANGED <<query, opens, fetches, writes>>

\* Abort without the finally of extract_tables: the local connection is
\* left as it is.
Abort_NoFinally ==
    /\ pc = "raised"
    /\ conn' = IF conn = "open" THEN "closed" ELSE conn
    /\ exit_status' = "1"
    /\ pc' = "done"
    /\ firstRun' = IF run = 1 THEN <<Snapshot>> ELSE firstRun
    /\ UNCHANGED <<envVars, fallbackEnv, local, tempFiles, gi, ti, openCursors,
                   cursor_result, df, tmp, schema_stats, console, outcome, run,
                   duckdb_conn>>
    /\ UNCHANGED planVars
    /\ UNCHANGED <<query, opens, fetches, writes>>

\* An exception leaves extract_tables: when raised inside the try, finally
\* duckdb_conn.close(); __exit__ closes the remote connection if self.conn
\* is set; cli.extract prints the error and raises typer.Exit(1).
Abort ==
    /\ pc = "raised"
    /\ duckdb_conn' = IF duckdb_conn = "open" THEN "closed" ELSE duckdb_conn
    /\ conn' = IF conn = "open" THEN "closed" ELSE conn
    /\ exit_status' = "1"
    /\ pc' = "done"
    /\ firstRun' = IF run = 1 THEN <<Snapshot>> ELSE firstRun
    /\ UNCHANGED <<envVars, fallbackEnv, local, tempFiles, gi, ti, openCursors,
                   cursor_result, df, tmp, schema_stats, console, outcome, run>>
    /\ UNCHANGED planVars
    /\ UNCHANGED <<query, opens, fetches, writes>>

\* The extract command is run again: same manifest, configuration and remote.
Rerun ==
    /\ pc = "done"
    /\ run < MaxRuns
    /\ run' = run + 1
    /\ pc' = "start"
    /\ gi' = 0
    /\ ti' = 0
    /\ conn' = None
    /\ duckdb_conn' = None
    /\ openCursors' = {}
    /\ cursor_result' = <<>>
    /\ df' = <<>>
    /\ tmp' = <<>>
    /\ schema_stats' = FreshStats
    /\ console' = <<>>
    /\ outcome' = FreshOutcome
    /\ exit_status' = None
    /\ query' = NoQuery
    /\ opens' = NoOpens
    /\ fetches' = NoCalls
    /\ writes' = NoCalls
    /\ UNCHANGED <<envVars, fallbackEnv, local, tempFiles, firstRun>>
    /\ UNCHANGED planVars

Init ==
    /\ manifest = RunManifest
    /\ sources = ParseManifest(RunManifest)
    /\ plan = RunPlan
    /\ ppc = "planned"
    /\ RunInit

Next ==
    \/ Begin
    \/ EnterGroup
    \/ ExecuteQuery
    \/ Fetch
    \/ DirectWrite
    \/ Serialize
    \/ Load
    \/ UpdateStats
    \/ Return
    \/ Abort
    \/ Rerun

Spec == Init /\ [][Next]_vars

(***************************************************************************)
(* Plan building as a state machine: a manifest is read, parsed, planned.  *)
(* No run is in progress.                                                  *)
(***************************************************************************)
NoRun ==
    /\ row_limit = MaxRowLimit
    /\ remote = [t \in Tables |-> Missing]
    /\ scanRel = NoRel
    /\ connectEnv = "ok"
    /\ fallbackEnv = [t \in Tables |-> "unknown"]
    /\ local = [t \in Tables |-> Absent]
    /\ tempFiles = {}
    /\ pc = "plan"
    /\ gi = 0
    /\ ti = 0
    /\ conn = None
    /\ duckdb_conn = None
    /\ openCursors = {}
    /\ cursor_result = <<>>
    /\ df = <<>>
    /\ tmp = <<>>
    /\ schema_stats = FreshStats
    /\ console = <<>>
    /\ outcome = FreshOutcome
    /\ exit_status = None
    /\ run = 1
    /\ firstRun = <<>>
    /\ query = NoQuery
    /\ opens = NoOpens
    /\ fetches = NoCalls
    /\ writes = NoCalls

PlanInit ==
    /\ manifest \in Manifests
    /\ sources = <<>>
    /\ plan = <<>>
    /\ ppc = "manifest"
    /\ NoRun

Parse ==
    /\ ppc = "manifest"
    /\ sources' = ParseManifest(manifest)
    /\ ppc' = "parsed"
    /\ UNCHANGED <<manifest, plan>>
    /\ UNCHANGED runVars

Build ==
    /\ ppc = "parsed"
    /\ plan' = BuildPlan(sources)
    /\ ppc' = "planned"
    /\ UNCHANGED <<manifest, sources>>
    /\ UNCHANGED runVars

PlanNext == Parse \/ Build

SpecPlan == PlanInit /\ [][PlanNext]_vars

(***************************************************************************)
(* Properties of the table loader (checked under Spec).                    *)
(***************************************************************************)
Customers == <<"analytics", "crm", "customers">>
CrmOrders == <<"analytics", "crm", "orders">>
ErpOrders == <<"analytics", "erp", "orders">>

Loaded(t) == outcome[t] \in {"direct", "fallback"}

\* The batch fetched for table t in a run: the rows its query returns.
FetchedBatch(t) == Limit(RemoteRows(t), row_limit)

\* The table a run writes for t when t's own query returns rows and t's own
\* write does not fail; it is a function of t's own inputs only.
OwnWrite(t) ==
    IF scanRel.exists THEN scanRel ELSE Relation(ConvertDf(FetchedBatch(t)))

\* C1: a failure of table A's query is reported as A's failure and does not
\* abort the run (a run that is aborted has a failed write, never only a
\* failed query); every other table B that the run loads is written as B's
\* own inputs determine, and in a run that returns every other table B has
\* been processed, and loaded when its query returns rows.
C1_QueryFailureIsolated ==
    \A a \in Tables : outcome[a] = "query_failed" =>
        /\ \E i \in 1..Len(console) : console[i] = <<"failed", a>>
        /\ (pc = "raised" \/ exit_status = "1") =>
               \E t \in Tables : outcome[t] = "write_failed"
        /\ \A b \in Tables \ {a} :
              /\ Loaded(b) => local[b] = OwnWrite(b)
              /\ exit_status = "0" =>
                    /\ outcome[b] # "pending"
                    /\ (remote[b].ok /\ Len(FetchedBatch(b)) > 0) =>
                           (Loaded(b) /\ local[b] = OwnWrite(b))

\* C1 witness: the first table's query failed, and the run returned with the
\* other table of its group and the table of the other group loaded.
C1_Witness ==
    /\ exit_status = "0"
    /\ outcome[Customers] = "query_failed"
    /\ outcome[CrmOrders] = "fallback"
    /\ outcome[ErpOrders] = "fallback"
    /\ local[CrmOrders].exists /\ Len(local[CrmOrders].rows) = MaxRowLimit

\* C2: a table whose direct write and fallback write both fail is a failure
\* of that table only: the run is not left by the exception and the command
\* does not exit with status 1.
C2_WriteFailureIsolated ==
    (\E t \in Tables : outcome[t] = "write_failed") =>
        (pc # "raised" /\ exit_status # "1")

\* C3: once the step of a table has ended (the loop is at another table, or
\* the run is over), no temporary parquet file exists.
C3_TempFileGone ==
    pc \in {"start", "group", "execute", "return", "done"} => tempFiles = {}

\* The tables of group k whose load has been counted in the group's counters.
CountedIn(k) ==
    { t \in Tables : /\ SubSeq(t, 1, 2) = k
                     /\ Loaded(t)
                     /\ ~(pc = "stats" /\ CurTable = t) }

RECURSIVE BatchRows(_)
BatchRows(S) ==
    IF S = {} THEN 0
    ELSE LET t == CHOOSE x \in S : TRUE
         IN  Len(FetchedBatch(t)) + BatchRows(S \ {t})

\* C4: a table loaded by the file-based fallback exists and holds exactly the
\* converted rows of the fetched batch, as many as the batch has
\* (min(remote rows, row_limit)); its status line reports that count, and
\* once counted it is one of the tables of its group's counter, whose rows
\* counter is the sum of the batch sizes of the tables counted.
C4_FallbackLoadsBatch ==
    \A t \in Tables : outcome[t] = "fallback" =>
        /\ local[t].exists
        /\ local[t].rows = ConvertDf(FetchedBatch(t))
        /\ Len(local[t].rows) = Min(remote[t].n, row_limit)
        /\ Len(local[t].rows) > 0
        /\ \E i \in 1..Len(console) : console[i] = <<"ok", t, Len(FetchedBatch(t))>>
        /\ LET k == SubSeq(t, 1, 2)
           IN  /\ schema_stats[k].set
               /\ schema_stats[k].tables = Cardinality(CountedIn(k))
               /\ schema_stats[k].rows = BatchRows(CountedIn(k))

\* C4 witness: a table that held other rows before was loaded by the
\* fallback with a full batch that contained a NaN.
C4_Witness ==
    /\ run = 1
    /\ exit_status = "0"
    /\ outcome[Customers] = "fallback"
    /\ ~scanRel.exists
    /\ Len(local[Customers].rows) = MaxRemoteRows
    /\ local[Customers].rows[1].val = None
    /\ schema_stats[<<"analytics", "crm">>].rows = MaxRemoteRows + 1

\* C5: with a positive row_limit, a local table written by the run holds at
\* most row_limit rows, and exactly row_limit when the remote table has more.
C5_RowCap ==
    row_limit > 0 =>
        \A t \in Tables : Loaded(t) =>
            /\ Len(local[t].rows) <= row_limit
            /\ remote[t].n > row_limit => Len(local[t].rows) = row_limit

\* C6: after a run, every table whose query succeeded and whose write did not
\* fail holds exactly the rows fetched in this run, whatever it held before
\* and however many rows were fetched.
C6_FullRefresh ==
    (pc = "done" /\ row_limit > 0) =>
        \A t \in Tables : outcome[t] \in {"empty", "direct", "fallback"} =>
            local[t].rows = ConvertDf(FetchedBatch(t))

\* C7: a later run with the same plan, configuration, remote and local engine
\* leaves every local table with the row count the first run left, and ends
\* with the same per-group counters.
C7_Idempotent ==
    (pc = "done" /\ run > 1) => Snapshot = firstRun[1]

\* C7 witness: a second run has ended after loading a table that held other
\* rows before the first run.
C7_Witness ==
    /\ pc = "done"
    /\ run = 2
    /\ exit_status = "0"
    /\ outcome[Customers] = "fallback"
    /\ schema_stats[<<"analytics", "crm">>].tables = 2
    /\ firstRun[1].rows[Customers] = MaxRowLimit

\* The plan's unit of a table.
UnitNamed(t) ==
    LET g == CHOOSE h \in 1..Len(plan) : plan[h].key = SubSeq(t, 1, 2)
        i == CHOOSE j \in 1..Len(plan[g].units) : plan[g].units[j].table_name = t[3]
    IN  plan[g].units[i]

\* C11: the query sent for a table selects the table's declared columns, in
\* order, when its unit has a column list, selects * only when it has none,
\* and carries LIMIT row_limit.
C11_QueryColumns ==
    query # NoQuery =>
        LET u == UnitNamed(query.from)
        IN  /\ u.columns.given => query.select = u.columns.names
            /\ ~u.columns.given => query.select = <<"*">>
            /\ query.limit = row_limit

LoopPcs == {"fetch", "direct", "serialize", "load", "stats"}

\* C12: a run opens the remote connection at most once and the local one at
\* most once; both are open at every step of every group and table; and when
\* the run has ended, by return or by an exception raised anywhere, every
\* connection that was opened is closed.
C12_ConnectionsScoped ==
    /\ opens.remote <= 1 /\ opens.local <= 1
    /\ (opens.remote = 0) = (conn = None)
    /\ (opens.local = 0) = (duckdb_conn = None)
    /\ pc \in {"group", "execute", "return"} \cup LoopPcs =>
           (conn = "open" /\ duckdb_conn = "open")
    /\ pc = "done" =>
           /\ conn \in {None, "closed"}
           /\ duckdb_conn \in {None, "closed"}

\* C12 witness: a run ended by an exception of a table's write, after a
\* table was loaded, with both connections closed.
C12_Witness ==
    /\ pc = "done"
    /\ exit_status = "1"
    /\ outcome[Customers] = "fallback"
    /\ outcome[CrmOrders] = "write_failed"
    /\ opens = [remote |-> 1, local |-> 1]
    /\ conn = "closed" /\ duckdb_conn = "closed"

\* C13: with a positive row_limit, every table is fetched at most once and
\* its local table is changed at most once in a run; the loop is entered
\* with no fetch done, a step is always possible inside it, and once the
\* table's load has been counted the loop is not at that table any more.
C13_OneBatch ==
    row_limit > 0 =>
        /\ \A t \in Tables :
              /\ fetches[t] <= 1
              /\ writes[t] <= 1
              /\ (Loaded(t) /\ pc \in LoopPcs \ {"stats"}) => CurTable # t
        /\ pc = "fetch" => fetches[CurTable] = 0
        /\ pc \in LoopPcs => ENABLED Next

\* C13 witness: a run returned with a table fetched once and written once,
\* from a remote table with more rows than row_limit.
C13_Witness ==
    /\ exit_status = "0"
    /\ row_limit = 1
    /\ remote[Customers].n = MaxRemoteRows
    /\ outcome[Customers] = "fallback"
    /\ fetches[Customers] = 1
    /\ writes[Customers] = 1

\* The status lines of table t.
LinesOf(t) == { i \in 1..Len(console) : console[i][2] = t }

\* C14: in a run with a positive row_limit that returns, every table has exactly one status line,
\* a success line with the rows written or a failure line, and every group's
\* counters are the number of its tables with a success line and the sum of
\* their row counts.
C14_OneOutcomePerTable ==
    (exit_status = "0" /\ row_limit > 0) =>
        /\ \A t \in Tables : Cardinality(LinesOf(t)) = 1
        /\ \A k \in Keys :
              /\ schema_stats[k].tables = Cardinality(CountedIn(k))
              /\ schema_stats[k].rows = BatchRows(CountedIn(k))

\* C15: at most one remote cursor is open, and when the loop is at the start
\* of a table's step, between groups or over, no cursor is open.
C15_CursorsClosed ==
    /\ Cardinality(openCursors) <= 1
    /\ pc \in {"execute", "group", "return", "done"} => openCursors = {}

(***************************************************************************)
(* Properties of plan building (checked under SpecPlan).                   *)
(***************************************************************************)
KeyOf(source_config) == Key(source_config.database, source_config.schema)

\* The number of tables of the sources 1..i that belong to the group key.
RECURSIVE TablesBefore(_, _)
TablesBefore(i, key) ==
    IF i = 0 THEN 0
    ELSE TablesBefore(i - 1, key)
         + (IF KeyOf(sources[i]) = key THEN Len(sources[i].tables) ELSE 0)

GroupOf(key) == CHOOSE g \in 1..Len(plan) : plan[g].key = key

\* The unit of table j of source i: the sources fill their group in order.
UnitOfTable(i, j) ==
    plan[GroupOf(KeyOf(sources[i]))].units[TablesBefore(i - 1, KeyOf(sources[i])) + j]

\* C8: in the plan, the meta of every table's unit has the keys of the
\* source's meta and of the table's meta; a key of the table's meta has the
\* table's value, a key of the source's meta only has the source's value; a
\* table with an empty meta gets the source's meta; the sources are as parsed.
C8_MetaOverlay ==
    ppc = "planned" =>
        /\ sources = ParseManifest(manifest)
        /\ \A i \in 1..Len(sources) : \A j \in 1..Len(sources[i].tables) :
              LET s == sources[i].meta
                  t == sources[i].tables[j].meta
                  u == UnitOfTable(i, j)
              IN  /\ u.source_name = sources[i].name
                  /\ u.table_name = sources[i].tables[j].name
                  /\ DOMAIN u.meta = (DOMAIN s) \cup (DOMAIN t)
                  /\ \A k \in DOMAIN t : u.meta[k] = t[k]
                  /\ \A k \in (DOMAIN s) \ (DOMAIN t) : u.meta[k] = s[k]
                  /\ (DOMAIN t = {}) => u.meta = s

\* C8 witness: a planned unit whose table meta overrides a key of the source
\* meta with another value and adds a key of its own.
C8_Witness ==
    /\ ppc = "planned"
    /\ \E i \in 1..Len(sources) : \E j \in 1..Len(sources[i].tables) :
          LET s == sources[i].meta
              t == sources[i].tables[j].meta
              u == UnitOfTable(i, j)
          IN  /\ \E k \in (DOMAIN s) \cap (DOMAIN t) : s[k] # t[k] /\ u.meta[k] = t[k]
              /\ \E k \in (DOMAIN t) \ (DOMAIN s) : u.meta[k] = t[k]

\* The units of the plan, of all groups.
PlanUnits ==
    UNION { { plan[g].units[u] : u \in 1..Len(plan[g].units) } : g \in 1..Len(plan) }

\* The manifest entries that declare a table.
TableEntries ==
    { manifest[x] : x \in { y \in 1..Len(manifest) :
                              manifest[y].source_name # "" /\ manifest[y].name # "" } }

\* C9: from the manifest to the plan, every table's unit carries the meta the
\* manifest declares for its source overlaid with the table's own meta.
C9_ManifestMeta ==
    ppc = "planned" =>
        \A n \in TableEntries :
            \E u \in PlanUnits :
                /\ u.source_name = n.source_name
                /\ u.table_name = n.name
                /\ u.meta = Overlay(n.source_meta, n.meta)

\* The sources that have at least one table with a non-empty name.
LiveSources == { n.source_name : n \in TableEntries }

\* Every entry of the manifest names its source and its table.
CompleteEntries ==
    \A x \in 1..Len(manifest) : manifest[x].source_name # "" /\ manifest[x].name # ""

\* C10 (stated for the manifests whose entries all name a source and a
\* table, where every source has a table): the keys of the plan are exactly
\* the database.schema pairs of the manifest's entries, each once, and every
\* table is listed under the group of its own entry's database and schema.
C10_GroupPerPair ==
    (ppc = "planned" /\ CompleteEntries) =>
        /\ { plan[g].key : g \in 1..Len(plan) } =
               { Key(manifest[x].database, manifest[x].schema) :
                    x \in { y \in 1..Len(manifest) :
                              manifest[y].source_name \in LiveSources } }
        /\ \A g, h \in 1..Len(plan) : plan[g].key = plan[h].key => g = h
        /\ \A n \in TableEntries :
              \E g \in 1..Len(plan) :
                  /\ plan[g].key = Key(n.database, n.schema)
                  /\ \E u \in 1..Len(plan[g].units) :
                        /\ plan[g].units[u].source_name = n.source_name
                        /\ plan[g].units[u].table_name = n.name

====
